---- MODULE Spec2Model ----
(***************************************************************************)
(* A model of aioytt: the track selector (get_caption_track), the          *)
(* identifier resolver (parse_video_id), the transcript parser             *)
(* (parse_transcript), the catalog parser (parse_captions) and the         *)
(* orchestrator (get_transcript_from_video_id, get_transcript_from_url)    *)
(* with fetch_html's retry.                                                *)
(*                                                                         *)
(* Python strings are TLA+ strings; their characters are read with Len,    *)
(* SubSeq, Head, Tail and \o, which TLC evaluates on strings.  Python's    *)
(* 0-based x[0] is the 1-based x[1] here.                                  *)
(*                                                                         *)
(* Six specifications: SelectSpec, UrlSpec and XmlSpec apply one pure      *)
(* function to every input of a bounded set; PipeSpec runs one call of     *)
(* get_transcript_from_video_id, and EntrySpec one call of                 *)
(* get_transcript_from_url, against every modelled network outcome;        *)
(* ConcSpec interleaves several invocations on one event loop.             *)
(***************************************************************************)
EXTENDS Integers, Sequences, FiniteSets, TLC

VARIABLES
    pc,               \* position of the call under study
    caption_tracks,   \* get_caption_track: argument caption_tracks
    language_codes,   \* get_caption_track: argument language_codes
    track_result,     \* get_caption_track: outcome (returned track / raised error)
    url_parts,        \* the pieces the url under study was written from
    url,              \* parse_video_id: argument url
    video_id_result,  \* parse_video_id: outcome (returned id / raised error)
    xml,              \* parse_transcript: argument xml, as the element tree
                      \* ElementTree.fromstring builds from it
    transcript_result, \* parse_transcript: outcome (returned list / raised error)
    url_call,         \* get_transcript_from_url: the arguments the caller passed
    call,             \* get_transcript_from_video_id: the arguments the caller passed
    video_id,         \* get_transcript_from_video_id: parameter video_id
    video_html,       \* the page text the first fetch returned
    captions_result,  \* parse_captions: outcome (returned Captions / raised error)
    requests,         \* the fetch_html calls issued so far, in order
    steps,            \* the functions the orchestrator has called so far, in order
    attempts,         \* the attempts of the fetch_html call in progress, in order:
                      \* the outcome of each and the sleep that followed it
    result,           \* get_transcript_from_video_id: outcome
    tasks             \* concurrent invocations: the frame of each (its position,
                      \* arguments, fetches, attempts, responses received, outcome)

selectVars == <<caption_tracks, language_codes, track_result>>
urlVars == <<url_parts, url, video_id_result>>
xmlVars == <<xml, transcript_result>>
invocationVars ==
    <<url_call, call, video_id, video_html, captions_result, requests, steps, attempts, result>>
pipeVars == <<invocationVars, tasks>>
vars == <<pc, selectVars, urlVars, xmlVars, pipeVars>>

(***************************************************************************)
(* Outcomes of a call: a returned value or a raised exception.             *)
(***************************************************************************)
Return(v) == [returned |-> v]
Raise(e) == [raised |-> e]
Pending == [pending |-> TRUE]
IsReturn(r) == DOMAIN r = {"returned"}
IsRaise(r) == DOMAIN r = {"raised"}

None == "None"

(***************************************************************************)
(* Bounds of the enumerated inputs.                                        *)
(***************************************************************************)
MaxTracks == 3
MaxPrefs == 2
MaxExtraSegments == 2
MaxParams == 2
MaxChildren == 3
MaxPageTracks == 2
MaxTasks == 2

SeqsUpTo(S, n) == UNION {[1..k -> S] : k \in 0..n}

(***************************************************************************)
(* CaptionTrack(base_url, language_code) and the language_codes argument,  *)
(* which is a single str or an iterable of str.                            *)
(***************************************************************************)
LanguageCodeSet == {"en", "en-US", "EN", "fr"}
BaseUrlSet == {"url_1", "url_2"}
CaptionTrack == [base_url : BaseUrlSet, language_code : LanguageCodeSet]

StrArg(s) == [type |-> "str", value |-> s]
ListArg(l) == [type |-> "list", value |-> l]
LanguageCodesArgs ==
    {StrArg(s) : s \in LanguageCodeSet}
        \cup {ListArg(l) : l \in SeqsUpTo(LanguageCodeSet, MaxPrefs)}

(***************************************************************************)
(* get_caption_track.  The two nested for loops are the recursive          *)
(* operators scan_tracks (inner) and scan_codes (outer); both return the   *)
(* 1-based index of the track the loop returns, or 0 when the loop ends    *)
(* without returning.                                                      *)
(***************************************************************************)
RECURSIVE scan_tracks(_, _, _)
scan_tracks(tracks, language_code, j) ==
    IF j > Len(tracks) THEN 0
    ELSE IF tracks[j].language_code = language_code THEN j
    ELSE scan_tracks(tracks, language_code, j + 1)

RECURSIVE scan_codes(_, _, _)
scan_codes(tracks, codes, i) ==
    IF i > Len(codes) THEN 0
    ELSE LET j == scan_tracks(tracks, codes[i], 1)
         IN  IF j # 0 THEN j ELSE scan_codes(tracks, codes, i + 1)

as_code_list(codes) ==
    IF codes.type = "str" THEN <<codes.value>> ELSE codes.value

\* Variants of get_caption_track with one plausible fault each: the loops
\* nested the other way round, no fallback to the first track, the
\* preference applied to a single track, and a single track taken for none.
RECURSIVE scan_tracks_outer(_, _, _)
scan_tracks_outer(tracks, codes, j) ==
    IF j > Len(tracks) THEN 0
    ELSE IF \E i \in 1..Len(codes) : tracks[j].language_code = codes[i] THEN j
    ELSE scan_tracks_outer(tracks, codes, j + 1)

get_caption_track_tracks_outer(tracks, codes) ==
    IF tracks = <<>> THEN Raise("CaptionsNotFoundError")
    ELSE IF Len(tracks) = 1 THEN Return(tracks[1])
    ELSE LET j == scan_tracks_outer(tracks, as_code_list(codes), 1)
         IN  IF j # 0 THEN Return(tracks[j]) ELSE Return(tracks[1])

get_caption_track_no_fallback(tracks, codes) ==
    IF tracks = <<>> THEN Raise("CaptionsNotFoundError")
    ELSE IF Len(tracks) = 1 THEN Return(tracks[1])
    ELSE LET j == scan_codes(tracks, as_code_list(codes), 1)
         IN  IF j # 0 THEN Return(tracks[j]) ELSE Raise("CaptionsNotFoundError")

get_caption_track_single_checked(tracks, codes) ==
    IF tracks = <<>> THEN Raise("CaptionsNotFoundError")
    ELSE LET j == scan_codes(tracks, as_code_list(codes), 1)
         IN  IF j # 0 THEN Return(tracks[j])
             ELSE IF Len(tracks) = 1 THEN Raise("CaptionsNotFoundError")
             ELSE Return(tracks[1])

get_caption_track_empty_at_one(tracks, codes) ==
    IF Len(tracks) <= 1 THEN Raise("CaptionsNotFoundError")
    ELSE LET j == scan_codes(tracks, as_code_list(codes), 1)
         IN  IF j # 0 THEN Return(tracks[j]) ELSE Return(tracks[1])

get_caption_track(tracks, codes) ==
    IF tracks = <<>> THEN Raise("CaptionsNotFoundError")
    ELSE IF Len(tracks) = 1 THEN Return(tracks[1])
    ELSE LET j == scan_codes(tracks, as_code_list(codes), 1)
         IN  IF j # 0 THEN Return(tracks[j]) ELSE Return(tracks[1])

(***************************************************************************)
(* Specification SelectSpec: one call of get_caption_track on every input  *)
(* of the bounded sets.                                                    *)
(***************************************************************************)
SelectIdle ==
    /\ caption_tracks = <<>>
    /\ language_codes = ListArg(<<>>)
    /\ track_result = Pending

UrlIdle ==
    /\ url_parts = [scheme |-> "", host |-> "", segments |-> <<>>,
                    slash |-> "", params |-> <<>>, has_query |-> FALSE]
    /\ url = ""
    /\ video_id_result = Pending

XmlIdle ==
    /\ xml = <<>>
    /\ transcript_result = Pending

InvocationIdle ==
    /\ url_call = <<>>
    /\ call = <<>>
    /\ video_id = ""
    /\ video_html = ""
    /\ captions_result = Pending
    /\ requests = <<>>
    /\ steps = <<>>
    /\ attempts = <<>>
    /\ result = Pending

PipeIdle == InvocationIdle /\ tasks = <<>>

SelectInit ==
    /\ pc = "select_called"
    /\ caption_tracks \in SeqsUpTo(CaptionTrack, MaxTracks)
    /\ language_codes \in LanguageCodesArgs
    /\ track_result = Pending
    /\ UrlIdle
    /\ XmlIdle
    /\ PipeIdle

GetCaptionTrack ==
    /\ pc = "select_called"
    /\ track_result' = get_caption_track(caption_tracks, language_codes)
    /\ pc' = "select_done"
    /\ UNCHANGED <<caption_tracks, language_codes, urlVars, xmlVars, pipeVars>>

SelectNext == GetCaptionTrack

SelectSpec == SelectInit /\ [][SelectNext]_vars

(***************************************************************************)
(* String helpers (str.find, str.startswith, str.endswith, str.lstrip,     *)
(* str.split, str.lower) on the characters the modelled urls are made of:  *)
(* ASCII letters, digits and  : / ? # & = . - _                            *)
(***************************************************************************)
CharAt(s, i) == SubSeq(s, i, i)

\* 1-based index of the first character of s at or after from that is in
\* chars, 0 when there is none (str.find returning -1).
find(s, chars, from) ==
    LET hits == {i \in from..Len(s) : CharAt(s, i) \in chars}
    IN  IF hits = {} THEN 0 ELSE CHOOSE i \in hits : \A j \in hits : i <= j

startswith(s, prefix) ==
    Len(s) >= Len(prefix) /\ SubSeq(s, 1, Len(prefix)) = prefix

endswith(s, suffix) ==
    Len(s) >= Len(suffix) /\ SubSeq(s, Len(s) - Len(suffix) + 1, Len(s)) = suffix

RECURSIVE lstrip(_, _)
lstrip(s, c) ==
    IF Len(s) > 0 /\ CharAt(s, 1) = c THEN lstrip(Tail(s), c) ELSE s

\* s.split(c): the pieces between the occurrences of c, empty ones kept.
RECURSIVE split(_, _)
split(s, c) ==
    LET i == find(s, {c}, 1)
    IN  IF i = 0 THEN <<s>>
        ELSE <<SubSeq(s, 1, i - 1)>> \o split(SubSeq(s, i + 1, Len(s)), c)

UpperLetters == "ABCDEFGHIJKLMNOPQRSTUVWXYZ"
LowerLetters == "abcdefghijklmnopqrstuvwxyz"
Digits == "0123456789"
CharsOf(s) == {CharAt(s, i) : i \in 1..Len(s)}

lower_char(c) ==
    IF c \in CharsOf(UpperLetters)
    THEN CharAt(LowerLetters, find(UpperLetters, {c}, 1))
    ELSE c

RECURSIVE lower(_)
lower(s) == IF s = "" THEN "" ELSE lower_char(Head(s)) \o lower(Tail(s))

(***************************************************************************)
(* urllib.parse.urlparse: scheme (lower-cased) up to the first ':' when    *)
(* everything before it is a scheme character and the first character is   *)
(* a letter; netloc after '//' up to the first of '/', '?', '#'; then the   *)
(* fragment after the first '#' and the query after the first '?'.         *)
(***************************************************************************)
scheme_chars == CharsOf(UpperLetters) \cup CharsOf(LowerLetters) \cup CharsOf(Digits) \cup {"+", "-", "."}

urlparse(u) ==
    LET i == find(u, {":"}, 1)
        has_scheme ==
            /\ i > 1
            /\ CharAt(u, 1) \in CharsOf(UpperLetters) \cup CharsOf(LowerLetters)
            /\ \A k \in 1..(i - 1) : CharAt(u, k) \in scheme_chars
        scheme == IF has_scheme THEN lower(SubSeq(u, 1, i - 1)) ELSE ""
        rest1 == IF has_scheme THEN SubSeq(u, i + 1, Len(u)) ELSE u
        has_netloc == startswith(rest1, "//")
        d == find(rest1, {"/", "?", "#"}, 3)
        delim == IF d = 0 THEN Len(rest1) + 1 ELSE d
        netloc == IF has_netloc THEN SubSeq(rest1, 3, delim - 1) ELSE ""
        rest2 == IF has_netloc THEN SubSeq(rest1, delim, Len(rest1)) ELSE rest1
        h == find(rest2, {"#"}, 1)
        fragment == IF h = 0 THEN "" ELSE SubSeq(rest2, h + 1, Len(rest2))
        rest3 == IF h = 0 THEN rest2 ELSE SubSeq(rest2, 1, h - 1)
        q == find(rest3, {"?"}, 1)
        query == IF q = 0 THEN "" ELSE SubSeq(rest3, q + 1, Len(rest3))
        path == IF q = 0 THEN rest3 ELSE SubSeq(rest3, 1, q - 1)
    IN  [scheme |-> scheme, netloc |-> netloc, path |-> path,
         query |-> query, fragment |-> fragment]

(***************************************************************************)
(* urllib.parse.parse_qs: the '&'-separated fields name=value in order; a  *)
(* field that is empty, has no '=' or has a blank value is dropped         *)
(* (keep_blank_values is False).  parse_qs_values gives the list that      *)
(* parse_qs(query)[name] holds, <<>> when the key is absent.               *)
(***************************************************************************)
RECURSIVE qsl_of_fields(_)
qsl_of_fields(fields) ==
    IF fields = <<>> THEN <<>>
    ELSE LET f == Head(fields)
             e == find(f, {"="}, 1)
         IN  IF f = "" \/ e = 0 \/ e = Len(f) THEN qsl_of_fields(Tail(fields))
             ELSE <<[name |-> SubSeq(f, 1, e - 1), value |-> SubSeq(f, e + 1, Len(f))]>>
                      \o qsl_of_fields(Tail(fields))

parse_qsl(query) == qsl_of_fields(split(query, "&"))

RECURSIVE values_of(_, _)
values_of(pairs, name) ==
    IF pairs = <<>> THEN <<>>
    ELSE IF Head(pairs).name = name
         THEN <<Head(pairs).value>> \o values_of(Tail(pairs), name)
         ELSE values_of(Tail(pairs), name)

parse_qs_values(query, name) == values_of(parse_qsl(query), name)

(***************************************************************************)
(* parse_video_id.                                                         *)
(***************************************************************************)
ALLOWED_SCHEMES == {"http", "https"}
ALLOWED_NETLOCS ==
    {"youtu.be", "m.youtube.com", "youtube.com", "www.youtube.com",
     "www.youtube-nocookie.com", "vid.plus"}
VideoIdLength == 11

\* Variant of the length check that only rejects longer candidates.
check_length_at_most(candidate) ==
    IF Len(candidate) > VideoIdLength THEN Raise("VideoIDError")
    ELSE Return(candidate)

check_length(candidate) ==
    IF Len(candidate) # VideoIdLength THEN Raise("VideoIDError")
    ELSE Return(candidate)

last_of(pieces) == pieces[Len(pieces)]

\* Variant of parse_video_id that takes the first path segment, not the last.
parse_video_id_first_segment(u) ==
    LET parsed_url == urlparse(u)
        path == parsed_url.path
    IN  IF parsed_url.scheme \notin ALLOWED_SCHEMES
        THEN Raise("UnsupportedURLSchemeError")
        ELSE IF parsed_url.netloc \notin ALLOWED_NETLOCS
        THEN Raise("UnsupportedURLNetlocError")
        ELSE IF endswith(path, "/watch")
        THEN LET ids == parse_qs_values(parsed_url.query, "v")
             IN  IF ids # <<>> THEN check_length(ids[1])
                 ELSE Raise("NoVideoIDFoundError")
        ELSE check_length(split(lstrip(path, "/"), "/")[1])

\* Variant: the host is checked before the scheme.
parse_video_id_netloc_first(u) ==
    LET parsed_url == urlparse(u)
        path == parsed_url.path
    IN  IF parsed_url.netloc \notin ALLOWED_NETLOCS
        THEN Raise("UnsupportedURLNetlocError")
        ELSE IF parsed_url.scheme \notin ALLOWED_SCHEMES
        THEN Raise("UnsupportedURLSchemeError")
        ELSE IF endswith(path, "/watch")
        THEN LET ids == parse_qs_values(parsed_url.query, "v")
             IN  IF ids # <<>> THEN check_length(ids[1])
                 ELSE Raise("NoVideoIDFoundError")
        ELSE check_length(last_of(split(lstrip(path, "/"), "/")))

parse_video_id(u) ==
    LET parsed_url == urlparse(u)
        path == parsed_url.path
    IN  IF parsed_url.scheme \notin ALLOWED_SCHEMES
        THEN Raise("UnsupportedURLSchemeError")
        ELSE IF parsed_url.netloc \notin ALLOWED_NETLOCS
        THEN Raise("UnsupportedURLNetlocError")
        ELSE IF endswith(path, "/watch")
        THEN LET ids == parse_qs_values(parsed_url.query, "v")
             IN  IF ids # <<>> THEN check_length(ids[1])
                 ELSE Raise("NoVideoIDFoundError")
        ELSE check_length(last_of(split(lstrip(path, "/"), "/")))

(***************************************************************************)
(* The urls under study, written from their pieces: scheme prefix, host,   *)
(* path segments (each preceded by '/'), an optional trailing '/', and a   *)
(* query of '&'-joined parameters after '?'.                               *)
(***************************************************************************)
SchemePrefixSet == {"https://", "http://", "HTTPS://", "ftp://", ""}
HostSet == ALLOWED_NETLOCS \cup {"vimeo.com"}
VideoIdSet == {"dQw4w9WgXcQ", "a-b_c-d_e-1"}
ExtraSegmentSet == {"v", "watch"}
LastSegmentSet == {"dQw4w9WgXcQ", "watch", "short", "dQw4w9WgXcQx"}
ParamSet == {"v=" \o id : id \in VideoIdSet} \cup {"v=short", "v=", "feature=featured"}

UrlParts ==
    [scheme : SchemePrefixSet,
     host : HostSet,
     segments : {pre \o <<l>> : pre \in SeqsUpTo(ExtraSegmentSet, MaxExtraSegments),
                                l \in LastSegmentSet} \cup {<<>>},
     slash : {"", "/"},
     params : SeqsUpTo(ParamSet, MaxParams),
     has_query : BOOLEAN]

RECURSIVE join(_, _)
join(pieces, sep) ==
    IF pieces = <<>> THEN ""
    ELSE IF Len(pieces) = 1 THEN pieces[1]
    ELSE pieces[1] \o sep \o join(Tail(pieces), sep)

RECURSIVE path_of(_)
path_of(segments) ==
    IF segments = <<>> THEN "" ELSE "/" \o Head(segments) \o path_of(Tail(segments))

build_url(parts) ==
    parts.scheme \o parts.host \o path_of(parts.segments) \o parts.slash
        \o (IF parts.has_query THEN "?" \o join(parts.params, "&") ELSE "")

(***************************************************************************)
(* Specification UrlSpec: one call of parse_video_id on every url of the   *)
(* bounded set.                                                            *)
(***************************************************************************)
UrlInit ==
    /\ pc = "resolve_called"
    /\ url_parts \in {p \in UrlParts : p.has_query \/ p.params = <<>>}
    /\ url = build_url(url_parts)
    /\ video_id_result = Pending
    /\ SelectIdle
    /\ XmlIdle
    /\ PipeIdle

ParseVideoId ==
    /\ pc = "resolve_called"
    /\ video_id_result' = parse_video_id(url)
    /\ pc' = "resolve_done"
    /\ UNCHANGED <<url_parts, url, selectVars, xmlVars, pipeVars>>

UrlNext == ParseVideoId

UrlSpec == UrlInit /\ [][UrlNext]_vars

(***************************************************************************)
(* parse_transcript.  The document is the sequence of the root's child     *)
(* elements as ElementTree gives them: .text is None for an element        *)
(* without character data and the character data (XML references already  *)
(* resolved, never empty) otherwise; .attrib maps the attribute names      *)
(* present to their values.  No modelled text is the string "None".        *)
(* Floats are counted in tenths of a second.                               *)
(***************************************************************************)
Whitespace == {" ", "\n", "\t"}

RECURSIVE rstrip_ws(_)
rstrip_ws(s) ==
    IF Len(s) > 0 /\ CharAt(s, Len(s)) \in Whitespace
    THEN rstrip_ws(SubSeq(s, 1, Len(s) - 1)) ELSE s

RECURSIVE lstrip_ws(_)
lstrip_ws(s) ==
    IF Len(s) > 0 /\ CharAt(s, 1) \in Whitespace THEN lstrip_ws(Tail(s)) ELSE s

strip(s) == rstrip_ws(lstrip_ws(s))

\* html.unescape on the references the modelled texts use: each is replaced
\* once, left to right, with or without its closing ';'.
CharacterReferences ==
    <<[ref |-> "&amp", char |-> "&"], [ref |-> "&lt", char |-> "<"],
      [ref |-> "&gt", char |-> ">"], [ref |-> "&quot", char |-> "\""],
      [ref |-> "&#32", char |-> " "]>>

reference_at(s) ==
    LET hits == {k \in 1..Len(CharacterReferences) : startswith(s, CharacterReferences[k].ref)}
    IN  IF hits = {} THEN 0 ELSE CHOOSE k \in hits : TRUE

RECURSIVE unescape(_)
unescape(s) ==
    IF s = "" THEN ""
    ELSE LET k == reference_at(s)
         IN  IF k = 0 THEN Head(s) \o unescape(Tail(s))
             ELSE LET after == SubSeq(s, Len(CharacterReferences[k].ref) + 1, Len(s))
                      rest == IF startswith(after, ";") THEN Tail(after) ELSE after
                  IN  CharacterReferences[k].char \o unescape(rest)

\* float(s) for decimal literals "d...d" and "d...d.d", in tenths;
\* ValueError for any other modelled value.
digit_value(c) == find(Digits, {c}, 1) - 1

RECURSIVE int_of_digits(_, _)
int_of_digits(s, acc) ==
    IF s = "" THEN acc ELSE int_of_digits(Tail(s), 10 * acc + digit_value(Head(s)))

is_digits(s) == s # "" /\ \A i \in 1..Len(s) : CharAt(s, i) \in CharsOf(Digits)

float(s) ==
    LET dot == find(s, {"."}, 1)
    IN  IF dot = 0
        THEN IF is_digits(s) THEN Return(10 * int_of_digits(s, 0))
             ELSE Raise("ValueError")
        ELSE IF is_digits(SubSeq(s, 1, dot - 1)) /\ dot + 1 = Len(s)
                    /\ is_digits(SubSeq(s, dot + 1, Len(s)))
        THEN Return(10 * int_of_digits(SubSeq(s, 1, dot - 1), 0)
                        + digit_value(CharAt(s, Len(s))))
        ELSE Raise("ValueError")

TranscriptSnippet(text, start, duration) ==
    [text |-> text, start |-> start, duration |-> duration]

\* attrib.get("dur", "0.0")
attrib_get(attrib, key, default) ==
    IF key \in DOMAIN attrib THEN attrib[key] ELSE default

\* Variant of the loop body whose default for a missing dur is "1.0".
snippet_of_default_dur(xml_element) ==
    IF xml_element.text = None THEN Pending
    ELSE IF "start" \notin DOMAIN xml_element.attrib THEN Raise("KeyError")
    ELSE LET start == float(xml_element.attrib["start"])
             duration == float(attrib_get(xml_element.attrib, "dur", "1.0"))
         IN  IF IsRaise(start) THEN start
             ELSE IF IsRaise(duration) THEN duration
             ELSE Return(TranscriptSnippet(unescape(strip(xml_element.text)),
                                           start.returned, duration.returned))

\* Variant of the loop body that defaults a missing start to "0.0".
snippet_of_default_start(xml_element) ==
    IF xml_element.text = None THEN Pending
    ELSE LET start == float(attrib_get(xml_element.attrib, "start", "0.0"))
             duration == float(attrib_get(xml_element.attrib, "dur", "0.0"))
         IN  IF IsRaise(start) THEN start
             ELSE IF IsRaise(duration) THEN duration
             ELSE Return(TranscriptSnippet(unescape(strip(xml_element.text)),
                                           start.returned, duration.returned))

\* One pass of the loop body: the snippet of the element, a raised error,
\* or Pending for an element the loop skips with continue.
snippet_of(xml_element) ==
    IF xml_element.text = None THEN Pending
    ELSE IF "start" \notin DOMAIN xml_element.attrib THEN Raise("KeyError")
    ELSE LET start == float(xml_element.attrib["start"])
             duration == float(attrib_get(xml_element.attrib, "dur", "0.0"))
         IN  IF IsRaise(start) THEN start
             ELSE IF IsRaise(duration) THEN duration
             ELSE Return(TranscriptSnippet(unescape(strip(xml_element.text)),
                                           start.returned, duration.returned))

RECURSIVE parse_elements(_, _)
parse_elements(elements, transcript_snippets) ==
    IF elements = <<>> THEN Return(transcript_snippets)
    ELSE LET r == snippet_of(Head(elements))
         IN  IF r = Pending THEN parse_elements(Tail(elements), transcript_snippets)
             ELSE IF IsRaise(r) THEN r
             ELSE parse_elements(Tail(elements), Append(transcript_snippets, r.returned))

parse_transcript(document) == parse_elements(document, <<>>)

(***************************************************************************)
(* The documents under study.                                              *)
(***************************************************************************)
TextSet == {None, "Hello", " ", "&#32;Hi\n"}
StartValueSet == {"0.0", "1.5", "abc"}
DurValueSet == {"2.0"}
AttribSet ==
    {<<>>} \cup {[start |-> v] : v \in StartValueSet}
         \cup {[dur |-> d] : d \in DurValueSet}
         \cup {[start |-> v, dur |-> d] : v \in StartValueSet \ {"abc"}, d \in DurValueSet}
ElementSet == [text : TextSet, attrib : AttribSet]

(***************************************************************************)
(* Specification XmlSpec: one call of parse_transcript on every document   *)
(* of the bounded set.                                                     *)
(***************************************************************************)
XmlInit ==
    /\ pc = "parse_called"
    /\ \E n \in 0..MaxChildren : xml \in [1..n -> ElementSet]
    /\ transcript_result = Pending
    /\ SelectIdle
    /\ UrlIdle
    /\ PipeIdle

ParseTranscript ==
    /\ pc = "parse_called"
    /\ transcript_result' = parse_transcript(xml)
    /\ pc' = "parse_done"
    /\ UNCHANGED <<xml, selectVars, urlVars, pipeVars>>

XmlNext == ParseTranscript

XmlSpec == XmlInit /\ [][XmlNext]_vars

(***************************************************************************)
(* parse_captions.  str.split with a separator of several characters,      *)
(* str.strip(";"), and json.loads as the inverse of the JSON texts the     *)
(* modelled pages embed (any other text is a JSONDecodeError).  A JSON     *)
(* object is a function from its keys, {} and [] are <<>>.                 *)
(***************************************************************************)
\* 1-based index of the first occurrence of sep in s at or after from, 0
\* when there is none.
find_str(s, sep, from) ==
    LET hits == {i \in from..(Len(s) - Len(sep) + 1) : SubSeq(s, i, i + Len(sep) - 1) = sep}
    IN  IF hits = {} THEN 0 ELSE CHOOSE i \in hits : \A j \in hits : i <= j

RECURSIVE split_str(_, _)
split_str(s, sep) ==
    LET i == find_str(s, sep, 1)
    IN  IF i = 0 THEN <<s>>
        ELSE <<SubSeq(s, 1, i - 1)>> \o split_str(SubSeq(s, i + Len(sep), Len(s)), sep)

RECURSIVE strip_char(_, _)
strip_char(s, c) ==
    IF Len(s) > 0 /\ CharAt(s, 1) = c THEN strip_char(Tail(s), c)
    ELSE IF Len(s) > 0 /\ CharAt(s, Len(s)) = c
    THEN strip_char(SubSeq(s, 1, Len(s) - 1), c)
    ELSE s

PageLanguageSet == {"en", "fr"}
PageBaseUrlSet == {"url_1"}
\* The elements of a captionTracks array: baseUrl may be missing.
PageTrackSet ==
    {[languageCode |-> l] : l \in PageLanguageSet}
        \cup {[baseUrl |-> u, languageCode |-> l] : u \in PageBaseUrlSet, l \in PageLanguageSet}
PageTrackLists == SeqsUpTo(PageTrackSet, MaxPageTracks)

track_text(t) ==
    "{" \o (IF "baseUrl" \in DOMAIN t THEN "\"baseUrl\":\"" \o t.baseUrl \o "\"," ELSE "")
        \o "\"languageCode\":\"" \o t.languageCode \o "\",\"name\":{\"simpleText\":\"x\"}}"

RECURSIVE tracks_text(_)
tracks_text(ts) ==
    IF ts = <<>> THEN ""
    ELSE IF Len(ts) = 1 THEN track_text(ts[1])
    ELSE track_text(ts[1]) \o "," \o tracks_text(Tail(ts))

renderer_text(inner) == "{\"captions\":{\"playerCaptionsTracklistRenderer\":" \o inner \o "}}"
catalog_text(ts) == renderer_text("{\"captionTracks\":[" \o tracks_text(ts) \o "]}")

CatalogTextOf == [ts \in PageTrackLists |-> catalog_text(ts)]

PlainJsonTexts ==
    {"{}", "{\"someOtherData\":{}}", "{\"captions\":{}}",
     renderer_text("{}"), renderer_text("{\"someOtherField\":[]}")}

json_loads(data) ==
    LET text == strip(data)
    IN  IF text = "{}" THEN Return(<<>>)
        ELSE IF text = "{\"someOtherData\":{}}" THEN Return([someOtherData |-> <<>>])
        ELSE IF text = "{\"captions\":{}}" THEN Return([captions |-> <<>>])
        ELSE IF text = renderer_text("{}")
        THEN Return([captions |-> [playerCaptionsTracklistRenderer |-> <<>>]])
        ELSE IF text = renderer_text("{\"someOtherField\":[]}")
        THEN Return([captions |-> [playerCaptionsTracklistRenderer |-> [someOtherField |-> <<>>]]])
        ELSE IF \E ts \in PageTrackLists : text = CatalogTextOf[ts]
        THEN Return([captions |-> [playerCaptionsTracklistRenderer |->
                        [captionTracks |-> CHOOSE ts \in PageTrackLists : text = CatalogTextOf[ts]]]])
        ELSE Raise("JSONDecodeError")

\* Captions.model_validate: each captionTracks element becomes a
\* CaptionTrack, baseUrl -> base_url (None when missing), languageCode ->
\* language_code, other keys ignored.
model_validate(captions_json) ==
    [caption_tracks |->
        [i \in 1..Len(captions_json.captionTracks) |->
            LET t == captions_json.captionTracks[i]
            IN  [base_url |-> IF "baseUrl" \in DOMAIN t THEN t.baseUrl ELSE None,
                 language_code |-> t.languageCode]]]

MARKER == "var ytInitialPlayerResponse ="

\* Variant: a page without the marker reported as a page without captions.
parse_captions_marker_as_no_captions(html) ==
    LET splitted_html == split_str(html, MARKER)
    IN  IF Len(splitted_html) < 2 THEN Raise("CaptionsNotFoundError")
        ELSE LET data1 == splitted_html[2]
                 data2 == split_str(data1, "</script>")[1]
                 data3 == split_str(data2, ";var head =")[1]
                 data == strip_char(data3, ";")
                 response_json == json_loads(data)
             IN  IF IsRaise(response_json) THEN response_json
                 ELSE LET captions == IF "captions" \in DOMAIN response_json.returned
                                      THEN response_json.returned.captions ELSE <<>>
                      IN  IF "playerCaptionsTracklistRenderer" \notin DOMAIN captions
                          THEN Raise("CaptionsNotFoundError")
                          ELSE LET captions_json == captions.playerCaptionsTracklistRenderer
                               IN  IF DOMAIN captions_json = {}
                                        \/ "captionTracks" \notin DOMAIN captions_json
                                   THEN Raise("CaptionsNotFoundError")
                                   ELSE Return(model_validate(captions_json))

parse_captions(html) ==
    LET splitted_html == split_str(html, MARKER)
    IN  IF Len(splitted_html) < 2 THEN Raise("InitialPlayerResponseNotFoundError")
        ELSE LET data1 == splitted_html[2]
                 data2 == split_str(data1, "</script>")[1]
                 data3 == split_str(data2, ";var head =")[1]
                 data == strip_char(data3, ";")
                 response_json == json_loads(data)
             IN  IF IsRaise(response_json) THEN response_json
                 ELSE LET captions == IF "captions" \in DOMAIN response_json.returned
                                      THEN response_json.returned.captions ELSE <<>>
                      IN  IF "playerCaptionsTracklistRenderer" \notin DOMAIN captions
                          THEN Raise("CaptionsNotFoundError")
                          ELSE LET captions_json == captions.playerCaptionsTracklistRenderer
                               IN  IF DOMAIN captions_json = {}
                                        \/ "captionTracks" \notin DOMAIN captions_json
                                   THEN Raise("CaptionsNotFoundError")
                                   ELSE Return(model_validate(captions_json))

(***************************************************************************)
(* The pages and the network outcomes under study.                         *)
(***************************************************************************)
PageTailSet == {"</script>", ";</script><script>x</script>", ";var head = h;</script>"}
PageSet ==
    {"<html>some content</html>"}
        \cup {"<script>" \o MARKER \o " " \o j \o t :
                 j \in PlainJsonTexts \cup {"{\"captions\":"}
                          \cup {CatalogTextOf[ts] : ts \in PageTrackLists},
                 t \in PageTailSet}

(***************************************************************************)
(* fetch_html under its retry decorator: an attempt that raises one of     *)
(* the retried httpx exception types is repeated until the attempt count   *)
(* reaches stop_after_attempt(3), then the last error is re-raised; any    *)
(* other exception is raised at once.                                      *)
(***************************************************************************)
MAX_ATTEMPTS == 3
RetriedErrors == {"ConnectError", "TimeoutException", "NetworkError"}
FetchErrorSet == RetriedErrors \cup {"HTTPStatusError"}

\* Variant: every exception is retried, a status error included.
retries_any_error(error, attempt_number) == attempt_number < MAX_ATTEMPTS

retries(error, attempt_number) ==
    error \in RetriedErrors /\ attempt_number < MAX_ATTEMPTS

\* wait_exponential(multiplier=1, min=1, max=10): the seconds slept after
\* the failed attempt attempt_number, before the next one.
WAIT_MULTIPLIER == 1
WAIT_MIN == 1
WAIT_MAX == 10

wait_exponential(attempt_number) ==
    LET exp == 2 ^ (attempt_number - 1)
        seconds == WAIT_MULTIPLIER * exp
        capped == IF seconds < WAIT_MAX THEN seconds ELSE WAIT_MAX
    IN  IF capped > WAIT_MIN THEN capped ELSE WAIT_MIN

\* One attempt of fetch_html: what client.get / raise_for_status gave
\* ("ok" for a response returned) and the seconds slept before the next
\* attempt (0 when the call ended with this attempt).
Attempt(outcome, sleep) == [outcome |-> outcome, sleep |-> sleep]

WATCH_URL == "https://www.youtube.com/watch?"

(***************************************************************************)
(* get_transcript_from_video_id.  The coroutine suspends at its two        *)
(* awaits; what it does between them is one step.                          *)
(***************************************************************************)
Omitted == [type |-> "omitted", value |-> <<>>]
\* Variants: another default language, and a base_url check that never fires.
DEFAULT_LANGUAGE_CODES_FR == ListArg(<<"fr">>)

DEFAULT_LANGUAGE_CODES == ListArg(<<"en">>)

base_url_missing_never(caption_track) == FALSE

base_url_missing(caption_track) == caption_track.base_url = None

CallArgSet ==
    [video_id : {"dQw4w9WgXcQ"},
     language_codes : {Omitted, StrArg("fr"), ListArg(<<>>), ListArg(<<"fr", "en">>)}]

PipelineDocumentSet == SeqsUpTo(ElementSet, 1)

PipeInit ==
    /\ pc = "idle"
    /\ PipeIdle
    /\ SelectIdle
    /\ UrlIdle
    /\ XmlIdle

\* Entering get_transcript_from_video_id with the arguments args: bind the
\* parameters and await fetch_video_html(video_id).
Invoke(args) ==
    /\ call' = args
    /\ video_id' = args.video_id
    /\ language_codes' =
           IF args.language_codes.type = "omitted" THEN DEFAULT_LANGUAGE_CODES
           ELSE args.language_codes
    /\ requests' = Append(requests, [url |-> WATCH_URL, v |-> video_id'])
    /\ steps' = Append(steps, "fetch_video_html")
    /\ attempts' = <<>>
    /\ pc' = "await_page"

\* A caller calls get_transcript_from_video_id.
CallGetTranscript ==
    /\ pc = "idle"
    /\ \E args \in CallArgSet : Invoke(args)
    /\ UNCHANGED <<caption_tracks, track_result, urlVars, xmlVars, url_call,
                   video_html, captions_result, result, tasks>>

\* Variant: the orchestrator catches the final fetch error and raises its own.
FetchFails_reinterpreted ==
    /\ pc \in {"await_page", "await_track"}
    /\ \E error \in FetchErrorSet :
          LET attempt_number == Len(attempts) + 1
          IN  IF retries(error, attempt_number)
              THEN /\ attempts' = Append(attempts,
                                         Attempt(error, wait_exponential(attempt_number)))
                   /\ UNCHANGED <<pc, result>>
              ELSE /\ attempts' = Append(attempts, Attempt(error, 0))
                   /\ pc' = "done"
                   /\ result' = Raise("CaptionsNotFoundError")
    /\ UNCHANGED <<selectVars, urlVars, xmlVars, url_call, call, video_id, video_html,
                   captions_result, requests, steps, tasks>>

\* An attempt of the fetch in progress fails.
FetchFails ==
    /\ pc \in {"await_page", "await_track"}
    /\ \E error \in FetchErrorSet :
          LET attempt_number == Len(attempts) + 1
          IN  IF retries(error, attempt_number)
              THEN /\ attempts' = Append(attempts,
                                         Attempt(error, wait_exponential(attempt_number)))
                   /\ UNCHANGED <<pc, result>>
              ELSE /\ attempts' = Append(attempts, Attempt(error, 0))
                   /\ pc' = "done"
                   /\ result' = Raise(error)
    /\ UNCHANGED <<selectVars, urlVars, xmlVars, url_call, call, video_id, video_html,
                   captions_result, requests, steps, tasks>>

\* The page fetch returns: parse_captions, get_caption_track, the base_url
\* check, and then the await of fetch_html(base_url).
PageFetched ==
    /\ pc = "await_page"
    /\ \E html \in PageSet :
          LET captions == parse_captions(html)
              tracks == captions.returned.caption_tracks
              caption_track == get_caption_track(tracks, language_codes)
          IN  /\ video_html' = html
              /\ captions_result' = captions
              /\ IF IsRaise(captions)
                 THEN /\ steps' = steps \o <<"parse_captions">>
                      /\ result' = captions
                      /\ pc' = "done"
                      /\ attempts' = Append(attempts, Attempt("ok", 0))
                      /\ UNCHANGED <<caption_tracks, track_result, requests>>
                 ELSE /\ caption_tracks' = tracks
                      /\ track_result' = caption_track
                      /\ IF IsRaise(caption_track)
                         THEN /\ steps' = steps \o <<"parse_captions", "get_caption_track">>
                              /\ result' = caption_track
                              /\ pc' = "done"
                              /\ attempts' = Append(attempts, Attempt("ok", 0))
                              /\ UNCHANGED requests
                         ELSE IF base_url_missing(caption_track.returned)
                         THEN /\ steps' = steps \o <<"parse_captions", "get_caption_track">>
                              /\ result' = Raise("CaptionsNotFoundError")
                              /\ pc' = "done"
                              /\ attempts' = Append(attempts, Attempt("ok", 0))
                              /\ UNCHANGED requests
                         ELSE /\ steps' = steps \o <<"parse_captions", "get_caption_track",
                                                      "fetch_html">>
                              /\ requests' = Append(requests,
                                     [url |-> caption_track.returned.base_url, v |-> None])
                              /\ attempts' = <<>>
                              /\ pc' = "await_track"
                              /\ UNCHANGED result
    /\ UNCHANGED <<language_codes, urlVars, xmlVars, url_call, call, video_id, tasks>>

\* The track fetch returns: parse_transcript, and the call returns.
TrackFetched ==
    /\ pc = "await_track"
    /\ \E document \in PipelineDocumentSet :
          /\ xml' = document
          /\ transcript_result' = parse_transcript(document)
          /\ result' = transcript_result'
    /\ attempts' = Append(attempts, Attempt("ok", 0))
    /\ steps' = Append(steps, "parse_transcript")
    /\ pc' = "done"
    /\ UNCHANGED <<selectVars, urlVars, url_call, call, video_id, video_html,
                   captions_result, requests, tasks>>

PipeNext == CallGetTranscript \/ FetchFails \/ PageFetched \/ TrackFetched

PipeSpec == PipeInit /\ [][PipeNext]_vars

(***************************************************************************)
(* get_transcript_from_url: parse_video_id(url), then                      *)
(* get_transcript_from_video_id(video_id, language_codes), awaited and     *)
(* returned as it is.                                                      *)
(***************************************************************************)
URL_DEFAULT_LANGUAGE_CODES == ListArg(<<"en">>)

\* Variant: the language codes are not handed on to the inner call.
inner_call_own_default(resolved_id, codes) ==
    [video_id |-> resolved_id, language_codes |-> Omitted]

\* The arguments of the inner call.
inner_call(resolved_id, codes) ==
    [video_id |-> resolved_id, language_codes |-> codes]

EntryUrlSet ==
    {"https://www.youtube.com/watch?v=dQw4w9WgXcQ",
     "https://youtu.be/a-b_c-d_e-1",
     "ftp://www.youtube.com/watch?v=dQw4w9WgXcQ",
     "https://vimeo.com/dQw4w9WgXcQ",
     "https://www.youtube.com/watch?feature=featured",
     "https://youtu.be/short"}

UrlCallArgSet ==
    [url : EntryUrlSet, language_codes : {Omitted, ListArg(<<"fr", "en">>)}]

\* A caller calls get_transcript_from_url.
CallGetTranscriptFromUrl ==
    /\ pc = "idle"
    /\ \E args \in UrlCallArgSet :
          LET codes == IF args.language_codes.type = "omitted"
                       THEN URL_DEFAULT_LANGUAGE_CODES
                       ELSE args.language_codes
          IN  /\ url_call' = args
              /\ url' = args.url
              /\ video_id_result' = parse_video_id(url')
              /\ IF IsRaise(video_id_result')
                 THEN /\ result' = video_id_result'
                      /\ pc' = "done"
                      /\ UNCHANGED <<call, video_id, language_codes, requests, steps,
                                     attempts>>
                 ELSE /\ Invoke(inner_call(video_id_result'.returned, codes))
                      /\ UNCHANGED result
    /\ UNCHANGED <<url_parts, caption_tracks, track_result, xmlVars,
                   video_html, captions_result, tasks>>

EntryNext == CallGetTranscriptFromUrl \/ FetchFails \/ PageFetched \/ TrackFetched

EntrySpec == PipeInit /\ [][EntryNext]_vars

(***************************************************************************)
(* Concurrent invocations of get_transcript_from_video_id on one event     *)
(* loop.  Every invocation is a coroutine with its own frame (parameters   *)
(* and locals); every fetch_html call has its own retry state and every    *)
(* attempt its own httpx.AsyncClient.  A step runs one coroutine from one  *)
(* suspension (an awaited request, or the sleep before a retry) to the     *)
(* next; the event loop interleaves the steps of the invocations freely.   *)
(***************************************************************************)
TaskIds == 1..MaxTasks

TaskArgs(t) ==
    IF t % 2 = 1 THEN [video_id |-> "dQw4w9WgXcQ", language_codes |-> Omitted]
    ELSE [video_id |-> "a-b_c-d_e-1", language_codes |-> StrArg("fr")]

IdleTask ==
    [pc |-> "idle", call |-> <<>>, language_codes |-> ListArg(<<>>),
     requests |-> <<>>, attempts |-> <<>>, responses |-> <<>>, result |-> Pending]

ConcErrorSet == {"ConnectError", "HTTPStatusError"}
ConcPageSet ==
    {"<html>some content</html>",
     "<script>" \o MARKER \o " "
         \o CatalogTextOf[<<[baseUrl |-> "url_1", languageCode |-> "en"],
                            [baseUrl |-> "url_1", languageCode |-> "fr"]>>]
         \o "</script>"}
ConcDocumentSet ==
    {<<>>, <<[text |-> "Hello", attrib |-> [start |-> "1.5", dur |-> "2.0"]]>>}

\* Variant: one attempt counter for all the calls in flight.
attempt_number_shared(ts, t) ==
    LET RECURSIVE total(_)
        total(k) == IF k = 0 THEN 0 ELSE Len(ts[k].attempts) + total(k - 1)
    IN  total(Len(ts)) + 1

\* The number of the attempt task t's fetch_html call is making.
attempt_number_of(ts, t) == Len(ts[t].attempts) + 1

ConcInit ==
    /\ pc = "gather"
    /\ tasks = [t \in TaskIds |-> IdleTask]
    /\ InvocationIdle
    /\ SelectIdle
    /\ UrlIdle
    /\ XmlIdle

\* Task t is started: parameters bound, fetch_video_html(video_id) awaited.
TaskCall(t) ==
    /\ tasks[t].pc = "idle"
    /\ tasks' = [tasks EXCEPT ![t] =
           [@ EXCEPT !.pc = "await_page",
                     !.call = TaskArgs(t),
                     !.language_codes =
                         IF TaskArgs(t).language_codes.type = "omitted"
                         THEN DEFAULT_LANGUAGE_CODES
                         ELSE TaskArgs(t).language_codes,
                     !.requests = <<[url |-> WATCH_URL, v |-> TaskArgs(t).video_id]>>]]
    /\ UNCHANGED <<pc, selectVars, urlVars, xmlVars, invocationVars>>

\* An attempt of task t's fetch in progress fails.
TaskFetchFails(t) ==
    /\ tasks[t].pc \in {"await_page", "await_track"}
    /\ \E error \in ConcErrorSet :
          LET attempt_number == attempt_number_of(tasks, t)
              frame == [tasks[t] EXCEPT !.responses = Append(@, Raise(error))]
          IN  tasks' = [tasks EXCEPT ![t] =
                  IF retries(error, attempt_number)
                  THEN [frame EXCEPT !.attempts =
                            Append(@, Attempt(error, wait_exponential(attempt_number)))]
                  ELSE [frame EXCEPT !.attempts = Append(@, Attempt(error, 0)),
                                     !.pc = "done",
                                     !.result = Raise(error)]]
    /\ UNCHANGED <<pc, selectVars, urlVars, xmlVars, invocationVars>>

\* Task t's page fetch returns: parse_captions, get_caption_track, the
\* base_url check, and the await of fetch_html(base_url).
TaskPageFetched(t) ==
    /\ tasks[t].pc = "await_page"
    /\ \E html \in ConcPageSet :
          LET frame == [tasks[t] EXCEPT !.responses = Append(@, Return(html))]
              ended(outcome) == [frame EXCEPT !.attempts = Append(@, Attempt("ok", 0)),
                                             !.pc = "done",
                                             !.result = outcome]
              captions == parse_captions(html)
              caption_track == get_caption_track(captions.returned.caption_tracks,
                                                 frame.language_codes)
          IN  tasks' = [tasks EXCEPT ![t] =
                  IF IsRaise(captions) THEN ended(captions)
                  ELSE IF IsRaise(caption_track) THEN ended(caption_track)
                  ELSE IF base_url_missing(caption_track.returned)
                  THEN ended(Raise("CaptionsNotFoundError"))
                  ELSE [frame EXCEPT
                           !.requests = Append(@, [url |-> caption_track.returned.base_url,
                                                   v |-> None]),
                           !.attempts = <<>>,
                           !.pc = "await_track"]]
    /\ UNCHANGED <<pc, selectVars, urlVars, xmlVars, invocationVars>>

\* Task t's track fetch returns: parse_transcript, and the task returns.
TaskTrackFetched(t) ==
    /\ tasks[t].pc = "await_track"
    /\ \E document \in ConcDocumentSet :
          tasks' = [tasks EXCEPT ![t] =
              [@ EXCEPT !.responses = Append(@, Return(document)),
                        !.attempts = Append(@, Attempt("ok", 0)),
                        !.pc = "done",
                        !.result = parse_transcript(document)]]
    /\ UNCHANGED <<pc, selectVars, urlVars, xmlVars, invocationVars>>

ConcNext ==
    \E t \in TaskIds :
        TaskCall(t) \/ TaskFetchFails(t) \/ TaskPageFetched(t) \/ TaskTrackFetched(t)

ConcSpec == ConcInit /\ [][ConcNext]_vars

(***************************************************************************)
(* Properties of get_caption_track (SelectSpec).                           *)
(***************************************************************************)
Min(S) == CHOOSE x \in S : \A y \in S : x <= y

\* The caller's preference list: a single string counts as a one-element list.
Preferred ==
    IF language_codes.type = "str" THEN <<language_codes.value>>
    ELSE language_codes.value

\* Indices of the preferred codes that equal some track's language_code.
MatchingPrefs ==
    {i \in 1..Len(Preferred) :
        \E j \in 1..Len(caption_tracks) :
            caption_tracks[j].language_code = Preferred[i]}

\* Indices of the tracks whose language_code equals the given code.
TracksWithCode(code) ==
    {j \in 1..Len(caption_tracks) : caption_tracks[j].language_code = code}

\* C1: with two or more tracks, the returned track is the first track (in
\* track order) whose language_code equals the earliest preferred code that
\* equals some track's language_code; preference order outranks track order.
C1_PreferenceOutranksTrackOrder ==
    (pc = "select_done" /\ Len(caption_tracks) >= 2 /\ MatchingPrefs # {}) =>
        track_result =
            Return(caption_tracks[Min(TracksWithCode(Preferred[Min(MatchingPrefs)]))])

\* A call returned a later track for the earlier preference although the
\* first track matches a later preference and "en" is listed beside "en-US".
C1_Witness ==
    /\ pc = "select_done"
    /\ Len(caption_tracks) >= 2
    /\ Len(Preferred) = 2
    /\ MatchingPrefs = {1, 2}
    /\ caption_tracks[1].language_code = Preferred[2]
    /\ caption_tracks[1].language_code = "en-US"
    /\ Preferred[1] = "en"
    /\ track_result = Return(caption_tracks[2])

\* C2: for a non-empty track list, when no preferred code equals any track's
\* language_code (the empty preference list included), the first track is
\* returned and nothing is raised.
C2_NoMatchReturnsFirstTrack ==
    (pc = "select_done" /\ caption_tracks # <<>> /\ MatchingPrefs = {}) =>
        track_result = Return(caption_tracks[1])

\* Two or more tracks, a non-empty preference list, no match: first track.
C2_Witness ==
    /\ pc = "select_done"
    /\ Len(caption_tracks) >= 2
    /\ Preferred # <<>>
    /\ MatchingPrefs = {}
    /\ track_result = Return(caption_tracks[1])

\* C3: get_caption_track raises CaptionsNotFoundError if and only if the
\* track list is empty, whatever the preferred languages are.
C3_RaisesIffNoTracks ==
    pc = "select_done" =>
        (track_result = Raise("CaptionsNotFoundError") <=> caption_tracks = <<>>)

\* The call on an empty track list with a single-string preference raised.
C3_Witness ==
    /\ pc = "select_done"
    /\ caption_tracks = <<>>
    /\ language_codes.type = "str"
    /\ track_result = Raise("CaptionsNotFoundError")

\* C4: with exactly one track, that track is returned for every
\* preferred-language input; the preference is ignored.
C4_SingleTrackReturned ==
    (pc = "select_done" /\ Len(caption_tracks) = 1) =>
        track_result = Return(caption_tracks[1])

\* The only track was returned although the preference does not match it.
C4_Witness ==
    /\ pc = "select_done"
    /\ Len(caption_tracks) = 1
    /\ Preferred # <<>>
    /\ MatchingPrefs = {}
    /\ track_result = Return(caption_tracks[1])

(***************************************************************************)
(* Properties of parse_video_id (UrlSpec), stated on the pieces the url    *)
(* was written from.                                                       *)
(***************************************************************************)
\* The scheme the url was written with (scheme names are case-insensitive),
\* "" when it was written without one.
GivenScheme ==
    CASE url_parts.scheme = "https://" -> "https"
      [] url_parts.scheme = "HTTPS://" -> "https"
      [] url_parts.scheme = "http://" -> "http"
      [] url_parts.scheme = "ftp://" -> "ftp"
      [] OTHER -> ""

SchemeAndHostAllowed ==
    GivenScheme \in {"http", "https"} /\ url_parts.host \in ALLOWED_NETLOCS

\* The path is .../watch, with no trailing slash.
WatchPath ==
    /\ url_parts.segments # <<>>
    /\ url_parts.segments[Len(url_parts.segments)] = "watch"
    /\ url_parts.slash = ""

\* Positions of the query parameters named v, and the value of a parameter.
VParams == {i \in 1..Len(url_parts.params) : startswith(url_parts.params[i], "v=")}
ValueOfParam(i) == SubSeq(url_parts.params[i], 3, Len(url_parts.params[i]))

\* watch?v=ID, with or without other parameters before or after it.
WatchShape ==
    WatchPath /\ VParams # {} /\ Len(ValueOfParam(Min(VParams))) = VideoIdLength

\* /ID or /<extra segments>/ID, with or without a query.
PathShape ==
    /\ url_parts.segments # <<>>
    /\ url_parts.slash = ""
    /\ Len(url_parts.segments[Len(url_parts.segments)]) = VideoIdLength

\* The last path segment the url was written with, "" for an empty path.
LastSegment ==
    IF url_parts.segments = <<>> THEN ""
    ELSE url_parts.segments[Len(url_parts.segments)]

EmbeddedId ==
    IF WatchPath THEN ValueOfParam(Min(VParams)) ELSE LastSegment

\* C5: a url with scheme http or https, an allow-listed host and an
\* 11-character identifier embedded in a supported shape (watch?v=ID with or
\* without extra parameters, /ID, /extra/segments/ID) resolves to exactly
\* that identifier.
C5_SupportedShapesResolve ==
    (pc = "resolve_done" /\ SchemeAndHostAllowed /\ (WatchShape \/ PathShape)) =>
        video_id_result = Return(EmbeddedId)

\* https://www.youtube-nocookie.com/watch/v/dQw4w9WgXcQ resolved to its id.
C5_Witness ==
    /\ pc = "resolve_done"
    /\ url = "https://www.youtube-nocookie.com/watch/v/dQw4w9WgXcQ"
    /\ PathShape
    /\ video_id_result = Return("dQw4w9WgXcQ")

\* C6: a scheme outside {http, https} fails with UnsupportedURLSchemeError;
\* otherwise a host outside the allow-list fails with
\* UnsupportedURLNetlocError; otherwise a /watch path without a v parameter
\* fails with NoVideoIDFoundError and a candidate (the first v value of a
\* /watch url, the last path segment of another url) that is not 11
\* characters long fails with VideoIDError; a returned value is always
\* exactly 11 characters long.
C6_ErrorKinds ==
    pc = "resolve_done" =>
        /\ GivenScheme \notin {"http", "https"} =>
               video_id_result = Raise("UnsupportedURLSchemeError")
        /\ (GivenScheme \in {"http", "https"} /\ url_parts.host \notin ALLOWED_NETLOCS) =>
               video_id_result = Raise("UnsupportedURLNetlocError")
        /\ (SchemeAndHostAllowed /\ WatchPath /\ VParams = {}) =>
               video_id_result = Raise("NoVideoIDFoundError")
        /\ (SchemeAndHostAllowed /\ WatchPath /\ VParams # {}
                /\ Len(ValueOfParam(Min(VParams))) \notin {0, VideoIdLength}) =>
               video_id_result = Raise("VideoIDError")
        /\ (SchemeAndHostAllowed /\ ~WatchPath /\ url_parts.slash = ""
                /\ Len(LastSegment) # VideoIdLength) =>
               video_id_result = Raise("VideoIDError")
        /\ IsReturn(video_id_result) => Len(video_id_result.returned) = VideoIdLength

\* A /watch url whose only v value is "short" failed the length check.
C6_Witness ==
    /\ pc = "resolve_done"
    /\ SchemeAndHostAllowed
    /\ WatchPath
    /\ url_parts.params = <<"feature=featured", "v=short">>
    /\ video_id_result = Raise("VideoIDError")

(***************************************************************************)
(* Properties of parse_transcript (XmlSpec).                               *)
(***************************************************************************)
\* Positions of the children that have a text node.
TextBearing == {i \in 1..Len(xml) : xml[i].text # None}

\* The k-th smallest member of a set of positions.
Nth(S, k) == CHOOSE i \in S : Cardinality({j \in S : j < i}) = k - 1

\* The number of tenths of a second an attribute value denotes.
TenthsOf(v) ==
    CASE v = "0.0" -> 0
      [] v = "1.5" -> 15
      [] v = "2.0" -> 20
      [] OTHER -> -1

\* Every text-bearing child has a start attribute that denotes a number.
StartsPresent ==
    \A i \in TextBearing :
        "start" \in DOMAIN xml[i].attrib /\ TenthsOf(xml[i].attrib["start"]) >= 0

\* C7: parse_transcript emits exactly one snippet for each child that has a
\* text node and none for a child without one, in document order; the
\* snippet's start is the element's start attribute and its duration the
\* dur attribute, or 0.0 when dur is absent.
C7_OneSnippetPerTextChild ==
    pc = "parse_done" =>
        /\ StartsPresent => IsReturn(transcript_result)
        /\ IsReturn(transcript_result) =>
               LET out == transcript_result.returned
               IN  /\ Len(out) = Cardinality(TextBearing)
                   /\ \A k \in 1..Len(out) :
                          LET e == xml[Nth(TextBearing, k)]
                          IN  /\ "start" \in DOMAIN e.attrib
                              /\ out[k].start = TenthsOf(e.attrib["start"])
                              /\ out[k].duration =
                                     IF "dur" \in DOMAIN e.attrib
                                     THEN TenthsOf(e.attrib["dur"]) ELSE 0

\* Valid text, an element without text, then text without dur: two snippets
\* in document order, the second with duration 0.0.
C7_Witness ==
    /\ pc = "parse_done"
    /\ Len(xml) = 3
    /\ TextBearing = {1, 3}
    /\ xml[1].attrib = [start |-> "0.0", dur |-> "2.0"]
    /\ xml[3].attrib = [start |-> "1.5"]
    /\ IsReturn(transcript_result)
    /\ Len(transcript_result.returned) = 2
    /\ transcript_result.returned[1].start = 0
    /\ transcript_result.returned[2].start = 15
    /\ transcript_result.returned[2].duration = 0

\* C8: every snippet parse_transcript returns has a non-empty text with no
\* leading or trailing whitespace; a child whose text node is only
\* whitespace produces no snippet.
C8_TextNonEmptyAndTrimmed ==
    (pc = "parse_done" /\ IsReturn(transcript_result)) =>
        \A k \in 1..Len(transcript_result.returned) :
            LET text == transcript_result.returned[k].text
            IN  /\ text # ""
                /\ CharAt(text, 1) \notin Whitespace
                /\ CharAt(text, Len(text)) \notin Whitespace

(***************************************************************************)
(* Properties of get_transcript_from_video_id (PipeSpec).                  *)
(***************************************************************************)
\* The language codes the call runs with: the caller's, or ("en",).
CallerLanguageCodes ==
    IF call.language_codes.type = "omitted" THEN ListArg(<<"en">>)
    ELSE call.language_codes

PageRequest == [url |-> WATCH_URL, v |-> call.video_id]

\* C9: an invocation that returns a transcript has issued exactly two
\* fetches, the page fetch for the given video id and then one fetch of the
\* selected track's base_url, and has run fetch page -> parse_captions ->
\* get_caption_track (with the caller's language codes, default ("en",)) ->
\* fetch track -> parse_transcript once each in that order; what it returns
\* is parse_transcript's result on the fetched XML.
C9_TwoFetchesFixedOrder ==
    (pc = "done" /\ IsReturn(result)) =>
        /\ captions_result = parse_captions(video_html)
        /\ track_result =
               get_caption_track(captions_result.returned.caption_tracks,
                                 CallerLanguageCodes)
        /\ requests = <<PageRequest,
                        [url |-> track_result.returned.base_url, v |-> None]>>
        /\ steps = <<"fetch_video_html", "parse_captions", "get_caption_track",
                     "fetch_html", "parse_transcript">>
        /\ result = parse_transcript(xml)

\* A call without language codes on a page listing fr before en returned
\* the one snippet of the en track's document.
C9_Witness ==
    /\ pc = "done"
    /\ IsReturn(result)
    /\ call.language_codes = Omitted
    /\ Len(caption_tracks) = 2
    /\ caption_tracks[1].language_code = "fr"
    /\ track_result = Return(caption_tracks[2])
    /\ Len(requests) = 2
    /\ Len(result.returned) = 1

\* C10: when the parsed catalog has no tracks, or the selected track has no
\* base_url, the invocation fails with CaptionsNotFoundError and the only
\* fetch issued is the page fetch.
C10_NoTrackUrlNoSecondFetch ==
    (/\ IsReturn(captions_result)
     /\ \/ captions_result.returned.caption_tracks = <<>>
        \/ (IsReturn(track_result) /\ track_result.returned.base_url = None)) =>
        /\ pc = "done"
        /\ result = Raise("CaptionsNotFoundError")
        /\ requests = <<PageRequest>>

\* Of two listed tracks the selected one has no base_url: the call failed
\* after the page fetch alone.
C10_Witness ==
    /\ pc = "done"
    /\ Len(caption_tracks) = 2
    /\ IsReturn(track_result)
    /\ track_result.returned.base_url = None
    /\ \E i \in 1..2 : caption_tracks[i].base_url # None
    /\ result = Raise("CaptionsNotFoundError")
    /\ Len(requests) = 1

(***************************************************************************)
(* Properties of fetch_html's retry (PipeSpec).                            *)
(***************************************************************************)
TransientErrors == {"ConnectError", "TimeoutException", "NetworkError"}

LastAttempt == attempts[Len(attempts)]

Awaiting == pc \in {"await_page", "await_track"}

\* C11: a fetch_html call makes a further attempt only after an attempt that
\* failed with ConnectError, TimeoutException or NetworkError, and makes at
\* most 3 attempts; when the third attempt fails the call raises that
\* attempt's error; an HTTPStatusError of any attempt ends the call at once
\* with that error; a successful attempt is the last of its call, and the
\* invocation goes on with it instead of failing with a fetch error.
C11_RetryOnlyTransientAtMostThree ==
    /\ Len(attempts) <= 3
    /\ \A i \in 1..(Len(attempts) - 1) :
          /\ attempts[i].outcome \in TransientErrors
          /\ attempts[i].sleep > 0
    /\ attempts # <<>> =>
          /\ LastAttempt.outcome = "HTTPStatusError" =>
                 pc = "done" /\ result = Raise("HTTPStatusError")
          /\ (LastAttempt.outcome \in TransientErrors /\ Len(attempts) = 3) =>
                 pc = "done" /\ result = Raise(LastAttempt.outcome) /\ LastAttempt.sleep = 0
          /\ (LastAttempt.outcome \in TransientErrors /\ Len(attempts) < 3) =>
                 Awaiting /\ result = Pending
          /\ LastAttempt.outcome = "ok" =>
                 /\ pc = "done"
                 /\ LastAttempt.sleep = 0
                 /\ \A e \in TransientErrors \cup {"HTTPStatusError"} : result # Raise(e)

\* The track fetch failed with ConnectError, then TimeoutException, then
\* NetworkError, and the invocation failed with NetworkError.
C11_Witness ==
    /\ pc = "done"
    /\ Len(requests) = 2
    /\ Len(attempts) = 3
    /\ attempts[1].outcome = "ConnectError"
    /\ attempts[2].outcome = "TimeoutException"
    /\ attempts[3].outcome = "NetworkError"
    /\ result = Raise("NetworkError")

\* C12: when every attempt of a fetch_html call fails with a transient
\* network error, the call retries 3 times, sleeping 1s, 2s and 4s between
\* the attempts (the docstring of fetch_html).
C12_ThreeRetriesWaits124 ==
    (/\ pc = "done"
     /\ attempts # <<>>
     /\ \A i \in 1..Len(attempts) : attempts[i].outcome \in TransientErrors) =>
        /\ Len(attempts) = 4
        /\ <<attempts[1].sleep, attempts[2].sleep, attempts[3].sleep>> = <<1, 2, 4>>

(***************************************************************************)
(* Properties of parse_captions (PipeSpec, on the fetched page).           *)
(***************************************************************************)
ParseCaptionsRan == Len(steps) >= 2 /\ steps[2] = "parse_captions"

MarkerOccurs ==
    \E i \in 1..(Len(video_html) - 28) :
        SubSeq(video_html, i, i + 28) = "var ytInitialPlayerResponse ="

\* The JSON text the page embeds after the marker.
EmbeddedJsonIs(text) ==
    \E tail \in {"</script>", ";</script><script>x</script>", ";var head = h;</script>"} :
        video_html = "<script>var ytInitialPlayerResponse = " \o text \o tail

\* C13: parse_captions raises InitialPlayerResponseNotFoundError exactly
\* when the marker 'var ytInitialPlayerResponse =' does not occur in the
\* page; it raises CaptionsNotFoundError when the decoded object has no
\* captions section, no playerCaptionsTracklistRenderer in it, or a renderer
\* without a captionTracks key; text that does not decode as JSON raises an
\* error other than the marker-absent one.
C13_CatalogErrors ==
    ParseCaptionsRan =>
        /\ captions_result = Raise("InitialPlayerResponseNotFoundError") <=> ~MarkerOccurs
        /\ (\/ EmbeddedJsonIs("{}")
            \/ EmbeddedJsonIs("{\"someOtherData\":{}}")
            \/ EmbeddedJsonIs("{\"captions\":{}}")
            \/ EmbeddedJsonIs("{\"captions\":{\"playerCaptionsTracklistRenderer\":{}}}")
            \/ EmbeddedJsonIs("{\"captions\":{\"playerCaptionsTracklistRenderer\":{\"someOtherField\":[]}}}"))
               => captions_result = Raise("CaptionsNotFoundError")
        /\ EmbeddedJsonIs("{\"captions\":") =>
               /\ IsRaise(captions_result)
               /\ captions_result # Raise("InitialPlayerResponseNotFoundError")
               /\ captions_result # Raise("CaptionsNotFoundError")

\* The page without the marker was parsed and the invocation failed with
\* InitialPlayerResponseNotFoundError.
C13_Witness ==
    /\ pc = "done"
    /\ ParseCaptionsRan
    /\ video_html = "<html>some content</html>"
    /\ result = Raise("InitialPlayerResponseNotFoundError")

(***************************************************************************)
(* Properties of get_transcript_from_url (EntrySpec).                      *)
(***************************************************************************)
UrlCallerLanguageCodes ==
    IF url_call.language_codes.type = "omitted" THEN ListArg(<<"en">>)
    ELSE url_call.language_codes

\* C14: get_transcript_from_url resolves the url before any fetch: when
\* parse_video_id raises, the invocation has failed with that error and no
\* fetch, attempt or later step exists; when it returns, the one call of
\* get_transcript_from_video_id has the resolved id and the caller's
\* language codes (("en",) when omitted), its page fetch asks for the
\* resolved id, and what the invocation returns is that call's result.
C14_UrlEntryResolvesFirst ==
    pc # "idle" =>
        /\ url = url_call.url
        /\ ~IsReturn(video_id_result) =>
               /\ IsRaise(video_id_result)
               /\ pc = "done"
               /\ result = video_id_result
               /\ requests = <<>> /\ attempts = <<>> /\ steps = <<>>
               /\ call = <<>>
        /\ IsReturn(video_id_result) =>
               /\ Len(video_id_result.returned) = 11
               /\ call = [video_id |-> video_id_result.returned,
                          language_codes |-> UrlCallerLanguageCodes]
               /\ language_codes = UrlCallerLanguageCodes
               /\ requests[1] = [url |-> "https://www.youtube.com/watch?",
                                 v |-> video_id_result.returned]
               /\ steps[1] = "fetch_video_html"
               /\ (pc = "done" /\ IsReturn(result)) =>
                      /\ track_result =
                             get_caption_track(captions_result.returned.caption_tracks,
                                               UrlCallerLanguageCodes)
                      /\ Len(requests) = 2
                      /\ result = transcript_result

\* The url call for youtu.be/a-b_c-d_e-1 with ["fr", "en"] fetched the page
\* of a-b_c-d_e-1, selected the fr track and returned its transcript.
C14_Witness ==
    /\ pc = "done"
    /\ url_call = [url |-> "https://youtu.be/a-b_c-d_e-1",
                   language_codes |-> ListArg(<<"fr", "en">>)]
    /\ requests[1].v = "a-b_c-d_e-1"
    /\ Len(caption_tracks) = 2
    /\ caption_tracks[1].language_code = "en"
    /\ track_result = Return(caption_tracks[2])
    /\ IsReturn(result)
    /\ Len(result.returned) = 1

(***************************************************************************)
(* Properties of the orchestrator's error handling (PipeSpec).             *)
(***************************************************************************)
FixedSteps ==
    <<"fetch_video_html", "parse_captions", "get_caption_track", "fetch_html",
      "parse_transcript">>

FetchFinallyFailed ==
    pc = "done" /\ attempts # <<>> /\ attempts[Len(attempts)].outcome # "ok"

\* C15: the orchestrator retries and reinterprets nothing.  The steps run
\* are always a prefix of the fixed sequence, each at most once, with at
\* most two fetches.  When a fetch finally fails the invocation has failed
\* with that attempt's error and no later step has run (after a page-fetch
\* failure parse_captions, get_caption_track and the track fetch have not
\* run); when parse_captions, get_caption_track or parse_transcript raises,
\* the invocation has failed with that error right after that step.
C15_FailuresSurfaceUnchanged ==
    /\ steps = SubSeq(FixedSteps, 1, Len(steps))
    /\ Len(requests) <= 2
    /\ FetchFinallyFailed =>
          /\ result = Raise(attempts[Len(attempts)].outcome)
          /\ \/ /\ Len(requests) = 1
                /\ steps = <<"fetch_video_html">>
                /\ captions_result = Pending /\ track_result = Pending
                /\ transcript_result = Pending
             \/ /\ Len(requests) = 2
                /\ steps = SubSeq(FixedSteps, 1, 4)
                /\ transcript_result = Pending
    /\ IsRaise(captions_result) =>
          /\ pc = "done" /\ result = captions_result
          /\ steps = SubSeq(FixedSteps, 1, 2) /\ Len(requests) = 1
          /\ track_result = Pending /\ transcript_result = Pending
    /\ IsRaise(track_result) =>
          /\ pc = "done" /\ result = track_result
          /\ steps = SubSeq(FixedSteps, 1, 3) /\ Len(requests) = 1
          /\ transcript_result = Pending
    /\ IsRaise(transcript_result) =>
          /\ pc = "done" /\ result = transcript_result
          /\ steps = FixedSteps /\ Len(requests) = 2

\* The page fetch failed with HTTPStatusError after one transient failure:
\* the invocation failed with HTTPStatusError and nothing else ran.
C15_Witness ==
    /\ pc = "done"
    /\ Len(requests) = 1
    /\ Len(attempts) = 2
    /\ attempts[1].outcome = "TimeoutException"
    /\ attempts[2].outcome = "HTTPStatusError"
    /\ result = Raise("HTTPStatusError")
    /\ steps = <<"fetch_video_html">>
    /\ captions_result = Pending

(***************************************************************************)
(* Properties of concurrent invocations (ConcSpec).                        *)
(***************************************************************************)
\* One fetch_html call run on its own against responses[k], responses[k+1],
\* ...: the attempt count starts at 1 and belongs to this call alone.
RECURSIVE fetch_alone(_, _, _)
fetch_alone(responses, k, n) ==
    IF k > Len(responses) THEN [outcome |-> Pending, next |-> k, made |-> n - 1]
    ELSE IF IsReturn(responses[k]) THEN [outcome |-> responses[k], next |-> k + 1, made |-> n]
    ELSE IF responses[k].raised \in TransientErrors /\ n < 3
    THEN fetch_alone(responses, k + 1, n + 1)
    ELSE [outcome |-> responses[k], next |-> k + 1, made |-> n]

\* get_transcript_from_video_id(args) run on its own against the fetch
\* responses given, in order: its outcome so far, the fetch_html calls it
\* has made and the attempts of the last of them.
get_transcript_alone(args, responses) ==
    LET codes == IF args.language_codes.type = "omitted" THEN ListArg(<<"en">>)
                 ELSE args.language_codes
        page == fetch_alone(responses, 1, 1)
        captions == parse_captions(page.outcome.returned)
        track == get_caption_track(captions.returned.caption_tracks, codes)
        document == fetch_alone(responses, page.next, 1)
        after_page(outcome) == [outcome |-> outcome, fetches |-> 1, made |-> page.made]
    IN  IF ~IsReturn(page.outcome) THEN after_page(page.outcome)
        ELSE IF IsRaise(captions) THEN after_page(captions)
        ELSE IF IsRaise(track) THEN after_page(track)
        ELSE IF track.returned.base_url = None
        THEN after_page(Raise("CaptionsNotFoundError"))
        ELSE [outcome |-> IF IsReturn(document.outcome)
                          THEN parse_transcript(document.outcome.returned)
                          ELSE document.outcome,
              fetches |-> 2, made |-> document.made]

\* C16: in every interleaving of the concurrent invocations, each started
\* invocation's outcome (transcript, error, or still pending), its number of
\* fetches and the attempts of its current fetch are those of the same call
\* run alone against the responses this invocation received.
C16_InvocationsIsolated ==
    \A t \in DOMAIN tasks :
        IF tasks[t].pc = "idle"
        THEN tasks[t] = [pc |-> "idle", call |-> <<>>, language_codes |-> ListArg(<<>>),
                         requests |-> <<>>, attempts |-> <<>>, responses |-> <<>>,
                         result |-> Pending]
        ELSE LET solo == get_transcript_alone(tasks[t].call, tasks[t].responses)
             IN  /\ tasks[t].result = solo.outcome
                 /\ Len(tasks[t].requests) = solo.fetches
                 /\ Len(tasks[t].attempts) = solo.made
                 /\ tasks[t].pc = "done" <=> solo.outcome # Pending

\* Invocation 1 returned its transcript after two failed attempts of the
\* track fetch while invocation 2 is still waiting to retry its own track
\* fetch after one failure.
C16_Witness ==
    /\ tasks[1].pc = "done"
    /\ IsReturn(tasks[1].result)
    /\ Len(tasks[1].result.returned) = 1
    /\ Len(tasks[1].attempts) = 3
    /\ tasks[2].pc = "await_track"
    /\ Len(tasks[2].attempts) = 1

(***************************************************************************)
(* Further properties of parse_video_id (UrlSpec).                         *)
(***************************************************************************)
\* C17: for an allowed scheme and host and a path whose last segment is not
\* 'watch', the candidate is the final non-empty path segment after
\* stripping leading and trailing slashes: the url resolves to that segment
\* when it is 11 characters long, with or without a trailing slash, and
\* fails the length check otherwise.
C17_TrailingSlashStripped ==
    (/\ pc = "resolve_done"
     /\ SchemeAndHostAllowed
     /\ url_parts.segments # <<>>
     /\ LastSegment # "watch") =>
        video_id_result =
            IF Len(LastSegment) = 11 THEN Return(LastSegment) ELSE Raise("VideoIDError")

BadScheme == GivenScheme \notin {"http", "https"}
BadHost == url_parts.host \notin {"www.youtube.com", "m.youtube.com", "youtube.com",
                                  "youtu.be", "vid.plus", "www.youtube-nocookie.com"}
NoVParam == WatchPath /\ VParams = {}

\* C18: the checks of parse_video_id come in a fixed order and the earliest
\* violated one decides the error: a bad scheme gives
\* UnsupportedURLSchemeError whatever the host, query and id are; with a good
\* scheme a bad host gives UnsupportedURLNetlocError whatever the query and
\* id are; NoVideoIDFoundError is raised only past both, and VideoIDError
\* only past the extraction.
C18_EarliestCheckDecides ==
    pc = "resolve_done" =>
        /\ BadScheme => video_id_result = Raise("UnsupportedURLSchemeError")
        /\ (~BadScheme /\ BadHost) => video_id_result = Raise("UnsupportedURLNetlocError")
        /\ (~BadScheme /\ ~BadHost /\ NoVParam) =>
               video_id_result = Raise("NoVideoIDFoundError")
        /\ video_id_result = Raise("UnsupportedURLNetlocError") => ~BadScheme
        /\ video_id_result = Raise("NoVideoIDFoundError") =>
               ~BadScheme /\ ~BadHost /\ WatchPath
        /\ video_id_result = Raise("VideoIDError") => ~BadScheme /\ ~BadHost /\ ~NoVParam

\* ftp://vimeo.com/short violates the scheme, host and length checks and
\* failed with UnsupportedURLSchemeError.
C18_Witness ==
    /\ pc = "resolve_done"
    /\ url = "ftp://vimeo.com/short"
    /\ BadScheme /\ BadHost /\ Len(LastSegment) # 11
    /\ video_id_result = Raise("UnsupportedURLSchemeError")

\* C19: on a /watch path with an allowed scheme and host, parse_video_id
\* raises NoVideoIDFoundError only when the query has no parameter named v;
\* whenever a v parameter is present, its value empty or not, the candidate
\* is the first v value: returned when 11 characters long, VideoIDError
\* otherwise.
C19_FirstVValueIsCandidate ==
    (pc = "resolve_done" /\ SchemeAndHostAllowed /\ WatchPath) =>
        video_id_result =
            IF VParams = {} THEN Raise("NoVideoIDFoundError")
            ELSE IF Len(ValueOfParam(Min(VParams))) = 11
            THEN Return(ValueOfParam(Min(VParams)))
            ELSE Raise("VideoIDError")

(***************************************************************************)
(* Further properties of parse_transcript (XmlSpec).                       *)
(***************************************************************************)
LacksStart(i) == "start" \notin DOMAIN xml[i].attrib

\* C20 as claimed: a document with any child lacking start, text-bearing or
\* not, makes parse_transcript fail instead of returning a list, and a
\* missing dur never makes it fail.
C20_AnyChildLackingStartFails ==
    pc = "parse_done" =>
        /\ (\E i \in 1..Len(xml) : LacksStart(i)) => IsRaise(transcript_result)
        /\ IsRaise(transcript_result) =>
               \E i \in 1..Len(xml) :
                   LacksStart(i) \/ TenthsOf(xml[i].attrib["start"]) < 0

\* C20, amended: parse_transcript never defaults a missing start.  A
\* document with a text-bearing child lacking start fails and returns no
\* list (with KeyError when the text-bearing children before it are well
\* formed); a child without text is skipped whether or not it has a start;
\* a missing dur never causes a failure: every failure comes from the start
\* of a text-bearing child, missing or not a number.
C20_TextChildLackingStartFails ==
    pc = "parse_done" =>
        /\ (\E i \in TextBearing : LacksStart(i)) => IsRaise(transcript_result)
        /\ \A i \in TextBearing :
               (/\ LacksStart(i)
                /\ \A j \in TextBearing :
                       j < i => (~LacksStart(j) /\ TenthsOf(xml[j].attrib["start"]) >= 0))
                   => transcript_result = Raise("KeyError")
        /\ IsRaise(transcript_result) =>
               \E i \in TextBearing :
                   LacksStart(i) \/ TenthsOf(xml[i].attrib["start"]) < 0

\* A well-formed child without dur, then a text-bearing child with dur but
\* no start: KeyError, and no list holding the first snippet.
C20_Witness ==
    /\ pc = "parse_done"
    /\ Len(xml) = 2
    /\ xml[1] = [text |-> "Hello", attrib |-> [start |-> "1.5"]]
    /\ xml[2] = [text |-> "Hello", attrib |-> [dur |-> "2.0"]]
    /\ transcript_result = Raise("KeyError")

====
